---- MODULE Spec2Model ----
(***************************************************************************)
(* The event dispatcher of kabukibot (twitch/dispatcher.go): the listener  *)
(* registry, the listener handles and the reentrant trigger queue.         *)
(*                                                                         *)
(* The dispatcher is single-threaded.  Control is modelled by a call       *)
(* stack: a TriggerEvent frame ("TE") runs the code of TriggerEvent, a     *)
(* callback frame ("CB") is a listener that the visitor has invoked and    *)
(* that has not returned yet.  Client code (the bot's main loop when the   *)
(* stack is empty, a listener when a CB frame is on top) may call          *)
(* AddListener, Remove and TriggerEvent in any order.                      *)
(*                                                                         *)
(* Indices are 1-based here and 0-based in the Go source.                  *)
(***************************************************************************)
EXTENDS Integers, Sequences, FiniteSets, TLC

\* ------------------------------------------------------------------ bounds
MaxListeners == 3      \* AddListener calls in one run
MaxTriggers == 3       \* TriggerEvent calls in one run

\* *Channel: nil, or a channel with a Name.
NilChannel == [isNil |-> TRUE, Name |-> ""]
Channel(name) == [isNil |-> FALSE, Name |-> name]

\* The (event, channel, callback) triples passed to AddListener and the
\* (event, channel) pairs passed to TriggerEvent.
AddInputs ==
    { <<"JOIN", NilChannel, "f">>, <<"JOIN", Channel("foo"), "g">>,
      <<"TEXT", NilChannel, "f">> }
TriggerInputs ==
    { <<"JOIN", NilChannel>>, <<"JOIN", Channel("foo")>>,
      <<"JOIN", Channel("bar")>> }

\* ------------------------------------------------------------------- state
VARIABLES
    listeners,     \* d.listeners: event key -> slice of Listener
    listenerID,    \* d.listenerID
    lock,          \* d.lock
    triggerQueue,  \* d.triggerQueue
    handles,       \* the *Listener values AddListener has returned, in call order
    stack,         \* the call stack, bottom first
    nreq,          \* history: TriggerEvent calls made so far
    popped,        \* history: visitors of the requests taken off the queue, in order
    log,           \* history: the callback invocations of the delivery in progress
    failed,        \* history: a listener has panicked
    doomed,        \* history: requests that were pending in a drain that panicked
    mutated,       \* history: the registry changed during the delivery in progress
    gone,          \* history: ids whose Remove had returned when the delivery began
    started,       \* history: d.listenerID when the delivery in progress began
    again          \* history: the last step was a Remove on a handle without dispatcher or list

vars == << listeners, listenerID, lock, triggerQueue, handles, stack, nreq,
           popped, log, failed, doomed, mutated, gone, started, again >>

hist == << nreq, popped, log, failed, doomed, mutated, gone, started >>

\* ------------------------------------------------------------ data helpers
\* The zero value of the Listener struct (an unused slot of a backing array).
ZeroListener == [dispatcher |-> FALSE, callback |-> "nil", event |-> "", id |-> 0]

\* A Go map without entries, and m[k] = v.
EmptyMap == [k \in {} |-> k]
MapPut(m, k, v) == [x \in (DOMAIN m) \cup {k} |-> IF x = k THEN v ELSE m[x]]

\* A slice is its backing array (arr, of length cap) and its length (len).
\* make([]Listener, 0)
EmptySlice == [arr |-> << >>, len |-> 0]

Zeros(n) == [i \in 1..n |-> ZeroListener]

\* The elements of a slice, in order.
Elems(s) == SubSeq(s.arr, 1, s.len)

\* The capacity append() gives a grown slice: the runtime doubles small slices.
GrowCap(oldcap, needed) ==
    IF 2 * oldcap >= needed THEN 2 * oldcap ELSE needed

\* append(s, x) reallocates iff the capacity is used up.
Reallocates(s) == s.len = Len(s.arr)

\* Mutant of SliceAppend: the new element is put in front of the list.
SliceAppendFront(s, x) ==
    [arr |-> << x >> \o Elems(s)
               \o Zeros(GrowCap(Len(s.arr), s.len + 1) - (s.len + 1)),
     len |-> s.len + 1]

\* append(s, x): in place when the capacity allows, else into a new array.
SliceAppend(s, x) ==
    IF ~Reallocates(s)
    THEN [arr |-> [s.arr EXCEPT ![s.len + 1] = x], len |-> s.len + 1]
    ELSE [arr |-> Elems(s) \o << x >>
                    \o Zeros(GrowCap(Len(s.arr), s.len + 1) - (s.len + 1)),
          len |-> s.len + 1]

\* Mutant of SliceDelete: the tail is copied down but the list keeps its
\* length (the result of append is not stored back).
SliceDeleteKeepsLen(s, pos) ==
    [arr |-> [i \in 1..Len(s.arr) |->
                 IF i >= pos /\ i < s.len THEN s.arr[i + 1] ELSE s.arr[i]],
     len |-> s.len]

\* Mutant of SliceDelete: the last element is moved into the freed slot.
SliceDeleteSwap(s, pos) ==
    [arr |-> [s.arr EXCEPT ![pos] = s.arr[s.len]], len |-> s.len - 1]

\* Mutant of SliceDelete: the list is cut by one at its end, whatever pos is.
SliceDeleteLast(s, pos) == [arr |-> s.arr, len |-> s.len - 1]

\* append(list[:pos], list[(pos+1):]...): the tail is copied one slot down in
\* the same backing array; the slot of the old last element keeps its value.
SliceDelete(s, pos) ==
    [arr |-> [i \in 1..Len(s.arr) |->
                 IF i >= pos /\ i < s.len THEN s.arr[i + 1] ELSE s.arr[i]],
     len |-> s.len - 1]

\* fullEventName / item.event + "#" + item.channel.Name
FullEventName(event, c) ==
    IF c.isNil THEN event ELSE event \o "#" \o c.Name

\* Mutant of Equals: two listeners are equal when their callbacks are.
EqualsCallback(l, m) == l.callback = m.callback

\* Listener.Equals
Equals(l, m) == l.id = m.id

\* The first index of list whose element Equals self, 0 when there is none
\* (pos, with -1 for none, in the source).
FindPos(list, self) ==
    IF \E i \in 1..list.len : Equals(self, list.arr[i])
    THEN CHOOSE i \in 1..list.len :
            /\ Equals(self, list.arr[i])
            /\ \A j \in 1..(i - 1) : ~Equals(self, list.arr[j])
    ELSE 0

\* ------------------------------------------------------------------ frames
\* The zero triggerQueueItem.  Besides the struct's fields an item carries
\* stamp, a history field: the value of d.listenerID when its TriggerEvent
\* call was made (every listener registered later has an id >= stamp).
NoItem == [event |-> "", channel |-> NilChannel, visitor |-> 0, stamp |-> 0]

\* A frame of the call stack.  For a TE frame: pc is "check" (line 152),
\* "loop" (line 161) or "run" (the range loop of runListeners); item is the
\* request being delivered; phase is 1 in the first runListeners call of the
\* request and 2 in the second; key, n, idx are runListeners' event, the
\* length of l and the loop index; live tells that l still shares its backing
\* array with d.listeners[key], and arr is l's backing array once it does not.
Frame(kind, pc, item, phase, key, n, idx, live, arr) ==
    [kind |-> kind, pc |-> pc, item |-> item, phase |-> phase, key |-> key,
     n |-> n, idx |-> idx, live |-> live, arr |-> arr]

CallFrame == Frame("TE", "check", NoItem, 0, "", 0, 0, FALSE, << >>)
CallbackFrame == Frame("CB", "body", NoItem, 0, "", 0, 0, FALSE, << >>)

Top == stack[Len(stack)]
Pop(s) == SubSeq(s, 1, Len(s) - 1)
SetTop(s, f) == [s EXCEPT ![Len(s)] = f]

\* Client code is running: the main loop, or the body of a listener.
ClientRuns == IF stack = << >> THEN TRUE ELSE Top.kind = "CB"

\* runListeners up to its loop: l, exists := d.listeners[event]; a missing
\* key returns at once, which is a loop over nothing.
EnterRun(f, phase, key) ==
    [f EXCEPT !.pc = "run", !.phase = phase, !.key = key, !.idx = 0,
              !.n = IF key \in DOMAIN listeners THEN listeners[key].len ELSE 0,
              !.live = key \in DOMAIN listeners, !.arr = << >>]

\* The backing array a frame's range loop reads.
LoopArray(f) == IF f.live THEN listeners[f.key].arr ELSE f.arr

\* -------------------------------------------------------------------- Init
Init ==
    /\ listeners = EmptyMap
    /\ listenerID = 0
    /\ lock = FALSE
    /\ triggerQueue = << >>
    /\ handles = << >>
    /\ stack = << >>
    /\ nreq = 0
    /\ popped = << >>
    /\ log = << >>
    /\ failed = FALSE
    /\ doomed = {}
    /\ mutated = FALSE
    /\ gone = {}
    /\ started = 0
    /\ again = FALSE



\* ----------------------------------------------------------------- actions
\* A delivery is in progress: client code runs inside a listener.
InDelivery == stack # << >>

\* Mutant of NextListenerID: the counter is not incremented.
NextListenerIDSame(id) == id

\* d.listenerID = d.listenerID + 1
NextListenerID(id) == id + 1

\* dispatcher.AddListener(event, c, f), called by client code.
AddListener(event, c, f) ==
    /\ ClientRuns
    /\ Len(handles) < MaxListeners
    /\ LET fullEventName == FullEventName(event, c)
           listener == [dispatcher |-> TRUE, callback |-> f,
                        event |-> fullEventName, id |-> listenerID]
           exists == fullEventName \in DOMAIN listeners
           list == IF exists THEN listeners[fullEventName] ELSE EmptySlice
           dup == FindPos(list, listener)
       IN  IF dup # 0
           THEN \* return &i
                /\ handles' = Append(handles, list.arr[dup])
                /\ UNCHANGED << listeners, listenerID, stack, mutated >>
           ELSE /\ listeners' = MapPut(listeners, fullEventName,
                                       SliceAppend(list, listener))
                /\ listenerID' = NextListenerID(listenerID)
                /\ handles' = Append(handles, listener)
                \* a range loop over the old backing array keeps that array
                /\ stack' = [i \in 1..Len(stack) |->
                               IF /\ stack[i].live
                                  /\ stack[i].key = fullEventName
                                  /\ Reallocates(list)
                               THEN [stack[i] EXCEPT !.live = FALSE,
                                                     !.arr = list.arr]
                               ELSE stack[i]]
                /\ mutated' = InDelivery
    /\ again' = FALSE
    /\ UNCHANGED << lock, triggerQueue, nreq, popped, log, failed, doomed, gone,
                    started >>

\* Mutant of Remove: the handle keeps no dispatcher check and finds its
\* entry by its callback.
RemoveByCallback(h) ==
    /\ ClientRuns
    /\ h \in 1..Len(handles)
    /\ LET self == handles[h] IN
       /\ again' = (~self.dispatcher \/ self.event \notin DOMAIN listeners)
       /\ IF self.event \notin DOMAIN listeners
          THEN /\ handles' = [handles EXCEPT ![h].dispatcher = FALSE]
               /\ UNCHANGED << listeners, mutated >>
          ELSE LET list == listeners[self.event]
                   hit == { i \in 1..list.len : list.arr[i].callback = self.callback }
               IN  IF hit # {}
                   THEN /\ listeners' =
                             [listeners EXCEPT ![self.event] =
                                SliceDelete(list, CHOOSE i \in hit : \A j \in hit : i <= j)]
                        /\ handles' = [handles EXCEPT ![h].dispatcher = FALSE]
                        /\ mutated' = InDelivery
                   ELSE UNCHANGED << listeners, handles, mutated >>
    /\ UNCHANGED << listenerID, lock, triggerQueue, stack, nreq, popped, log,
                    failed, doomed, gone, started >>

\* Listener.Remove() on the h-th handle, called by client code.
Remove(h) ==
    /\ ClientRuns
    /\ h \in 1..Len(handles)
    /\ LET self == handles[h] IN
       /\ again' = (~self.dispatcher \/ self.event \notin DOMAIN listeners)
       /\ IF ~self.dispatcher
          THEN UNCHANGED << listeners, handles, mutated >>
          ELSE IF self.event \notin DOMAIN listeners
          THEN /\ handles' = [handles EXCEPT ![h].dispatcher = FALSE]
               /\ UNCHANGED << listeners, mutated >>
          ELSE LET list == listeners[self.event]
                   pos == FindPos(list, self)
               IN  IF pos # 0
                   THEN /\ listeners' = [listeners EXCEPT
                                           ![self.event] = SliceDelete(list, pos)]
                        /\ handles' = [handles EXCEPT ![h].dispatcher = FALSE]
                        /\ mutated' = InDelivery
                   ELSE UNCHANGED << listeners, handles, mutated >>
    /\ UNCHANGED << listenerID, lock, triggerQueue, stack, nreq, popped, log,
                    failed, doomed, gone, started >>

\* Mutant of Enqueue: the request is put at the head of the queue.
EnqueueFront(q, item) == << item >> \o q

\* d.triggerQueue = append(d.triggerQueue, item)
Enqueue(q, item) == Append(q, item)

\* dispatcher.TriggerEvent(event, c, visitor), line 148: the call enqueues its
\* request.  The visitor is the closure of this call; it stands for the call.
TriggerEvent(event, c) ==
    /\ ClientRuns
    /\ nreq < MaxTriggers
    /\ nreq' = nreq + 1
    /\ triggerQueue' = Enqueue(triggerQueue,
                         [event |-> event, channel |-> c, visitor |-> nreq + 1,
                          stamp |-> listenerID])
    /\ stack' = Append(stack, CallFrame)
    /\ again' = FALSE
    /\ UNCHANGED << listeners, listenerID, lock, handles, popped, log, failed,
                    doomed, mutated, gone, started >>

\* Mutant of Locked: the reentrancy check is missing.
LockedNever == FALSE

\* if (d.lock)
Locked == lock

\* Mutant of CheckLock: the early return releases the lock.
CheckLockReleases ==
    /\ stack # << >>
    /\ Top.kind = "TE" /\ Top.pc = "check"
    /\ IF Locked
       THEN stack' = Pop(stack) /\ lock' = FALSE
       ELSE lock' = TRUE /\ stack' = SetTop(stack, [Top EXCEPT !.pc = "loop"])
    /\ again' = FALSE
    /\ UNCHANGED << listeners, listenerID, triggerQueue, handles, hist >>

\* TriggerEvent, lines 152-156: return when locked, else take the lock.
CheckLock ==
    /\ stack # << >>
    /\ Top.kind = "TE" /\ Top.pc = "check"
    /\ IF Locked
       THEN stack' = Pop(stack) /\ UNCHANGED lock
       ELSE lock' = TRUE /\ stack' = SetTop(stack, [Top EXCEPT !.pc = "loop"])
    /\ again' = FALSE
    /\ UNCHANGED << listeners, listenerID, triggerQueue, handles, hist >>

\* The ids of the handles whose Remove has cleared their dispatcher.
Removed == { handles[h].id : h \in { i \in 1..Len(handles) : ~handles[i].dispatcher } }

\* Mutant of PopItem: the item is read but not taken off the queue.
PopItemKeepsQueue ==
    /\ stack # << >>
    /\ Top.kind = "TE" /\ Top.pc = "loop"
    /\ Len(triggerQueue) > 0
    /\ LET item == Head(triggerQueue) IN
       /\ stack' = SetTop(stack, EnterRun([Top EXCEPT !.item = item], 1, item.event))
       /\ popped' = Append(popped, item.visitor)
    /\ log' = << >>
    /\ mutated' = FALSE
    /\ gone' = Removed
    /\ started' = listenerID
    /\ again' = FALSE
    /\ UNCHANGED << listeners, listenerID, lock, triggerQueue, handles, nreq,
                    failed, doomed >>

\* TriggerEvent, lines 161-167: pop the first item and enter runListeners for
\* the plain event name.
PopItem ==
    /\ stack # << >>
    /\ Top.kind = "TE" /\ Top.pc = "loop"
    /\ Len(triggerQueue) > 0
    /\ LET item == Head(triggerQueue) IN
       /\ triggerQueue' = Tail(triggerQueue)
       /\ stack' = SetTop(stack, EnterRun([Top EXCEPT !.item = item], 1, item.event))
       /\ popped' = Append(popped, item.visitor)
    /\ log' = << >>
    /\ mutated' = FALSE
    /\ gone' = Removed
    /\ started' = listenerID
    /\ again' = FALSE
    /\ UNCHANGED << listeners, listenerID, lock, handles, nreq, failed, doomed >>

\* runListeners, lines 187-188: the next element of l is copied and the
\* visitor is called with its callback.
Visit ==
    /\ stack # << >>
    /\ Top.kind = "TE" /\ Top.pc = "run"
    /\ Top.idx < Top.n
    /\ LET listener == LoopArray(Top)[Top.idx + 1] IN
       log' = Append(log, [visitor |-> Top.item.visitor, id |-> listener.id,
                           callback |-> listener.callback,
                           event |-> listener.event])
    /\ stack' = Append(stack, CallbackFrame)
    /\ again' = FALSE
    /\ UNCHANGED << listeners, listenerID, lock, triggerQueue, handles, nreq,
                    popped, failed, doomed, mutated, gone, started >>

\* The listener returns; the range loop goes on to the next index.
Return ==
    /\ stack # << >>
    /\ Top.kind = "CB"
    /\ LET s == Pop(stack) IN
       stack' = SetTop(s, [s[Len(s)] EXCEPT !.idx = @ + 1])
    /\ again' = FALSE
    /\ UNCHANGED << listeners, listenerID, lock, triggerQueue, handles, hist >>

\* The requests a panic leaves undelivered: those in the queue and those
\* whose delivery was in progress.
Pending ==
    { triggerQueue[i].visitor : i \in 1..Len(triggerQueue) }
      \cup { stack[i].item.visitor :
               i \in { j \in 1..Len(stack) : stack[j].pc = "run" } }

\* Mutant of Panic: the lock is released while the panic unwinds (as a
\* deferred unlock would do).
PanicReleasesLock ==
    /\ stack # << >>
    /\ Top.kind = "CB"
    /\ stack' = << >>
    /\ failed' = TRUE
    /\ doomed' = doomed \cup Pending
    /\ lock' = FALSE
    /\ log' = << >>
    /\ mutated' = FALSE
    /\ gone' = {}
    /\ started' = 0
    /\ again' = FALSE
    /\ UNCHANGED << listeners, listenerID, triggerQueue, handles, nreq, popped >>

\* The listener panics.  Nothing in the dispatcher recovers or defers: the
\* panic unwinds every frame and d.lock keeps its value.
Panic ==
    /\ stack # << >>
    /\ Top.kind = "CB"
    /\ stack' = << >>
    /\ failed' = TRUE
    /\ doomed' = doomed \cup Pending
    /\ log' = << >>
    /\ mutated' = FALSE
    /\ gone' = {}
    /\ started' = 0
    /\ again' = FALSE
    /\ UNCHANGED << listeners, listenerID, lock, triggerQueue, handles, nreq,
                    popped >>

\* Mutant of LastRun: the scoped key is never run.
LastRunAlways(f) == TRUE

\* The delivery of the frame's item ends with this runListeners call.
LastRun(f) == f.phase = 2 \/ f.item.channel.isNil

\* The end of a runListeners call: lines 169-171 enter it again for the
\* scoped key when the item has a channel, else the drain loop continues.
RunDone ==
    /\ stack # << >>
    /\ Top.kind = "TE" /\ Top.pc = "run"
    /\ Top.idx = Top.n
    /\ IF ~LastRun(Top)
       THEN /\ stack' = SetTop(stack, EnterRun(Top, 2,
                           FullEventName(Top.item.event, Top.item.channel)))
            /\ UNCHANGED << log, mutated, gone, started >>
       ELSE /\ stack' = SetTop(stack, [Top EXCEPT !.pc = "loop"])
            /\ log' = << >>
            /\ mutated' = FALSE
            /\ gone' = {}
            /\ started' = 0
    /\ again' = FALSE
    /\ UNCHANGED << listeners, listenerID, lock, triggerQueue, handles, nreq,
                    popped, failed, doomed >>

\* Mutant of LoopEnd: the lock is not released.
LoopEndKeepsLock ==
    /\ stack # << >>
    /\ Top.kind = "TE" /\ Top.pc = "loop"
    /\ Len(triggerQueue) = 0
    /\ stack' = Pop(stack)
    /\ again' = FALSE
    /\ UNCHANGED << lock, listeners, listenerID, triggerQueue, handles, hist >>

\* TriggerEvent, lines 161 and 175: the queue is empty, the lock is released
\* and the call returns.
LoopEnd ==
    /\ stack # << >>
    /\ Top.kind = "TE" /\ Top.pc = "loop"
    /\ Len(triggerQueue) = 0
    /\ lock' = FALSE
    /\ stack' = Pop(stack)
    /\ again' = FALSE
    /\ UNCHANGED << listeners, listenerID, triggerQueue, handles, hist >>

\* The steps the dispatcher takes by itself.
Step == CheckLock \/ PopItem \/ Visit \/ RunDone \/ LoopEnd

Next ==
    \/ \E in \in AddInputs : AddListener(in[1], in[2], in[3])
    \/ \E h \in 1..MaxListeners : Remove(h)
    \/ \E in \in TriggerInputs : TriggerEvent(in[1], in[2])
    \/ CheckLock
    \/ PopItem
    \/ Visit
    \/ Return
    \/ Panic
    \/ RunDone
    \/ LoopEnd

Spec == Init /\ [][Next]_vars

\* Listeners return and the dispatcher's own code runs on: the program is
\* sequential, so a call that can take its next step takes it.
FairSpec == Spec /\ WF_vars(Step) /\ WF_vars(Return)


\* ---------------------------------------------------------- typed wrappers
\* A listenerFunc is an interface{}: a function boxed with its dynamic type.
\* The wrappers take a parameter of a handler type, so the value they hand to
\* AddListener has that type.  via is a history field: the wrapper the
\* function was handed to.
Boxed(f, type, via) == [fn |-> f, type |-> type, via |-> via]

\* The functions and channels the clients of the wrappers pass.
TypedFuncs == {"f"}
TypedChannels == {Channel("foo")}

\* Mutant of OnPart: the listener is registered for JOIN.
OnPartAsJoin(f, c) == AddListener("JOIN", c, Boxed(f, "JoinHandlerFunc", "OnPart"))

OnTextMessage(f, c) == AddListener("TEXT", c, Boxed(f, "TextHandlerFunc", "OnTextMessage"))
OnTwitchMessage(f, c) == AddListener("TWITCH", c, Boxed(f, "TwitchHandlerFunc", "OnTwitchMessage"))
OnJoin(f, c) == AddListener("JOIN", c, Boxed(f, "JoinHandlerFunc", "OnJoin"))
OnPart(f, c) == AddListener("PART", c, Boxed(f, "JoinHandlerFunc", "OnPart"))

\* HandleTextMessage(msg), with c the channel of msg, and the other three.
HandleTextMessage(c) == TriggerEvent("TEXT", c)
HandleTwitchMessage(c) == TriggerEvent("TWITCH", c)
HandleJoin(c) == TriggerEvent("JOIN", c)
HandlePart(c) == TriggerEvent("PART", c)

\* The type the visitor of a Handle* wrapper asserts, listener.(T): the
\* wrapper is known by the event name it triggers.
AssertedType(event) ==
    CASE event = "TEXT" -> "TextHandlerFunc"
      [] event = "TWITCH" -> "TwitchHandlerFunc"
      [] event = "JOIN" -> "JoinHandlerFunc"
      [] event = "PART" -> "JoinHandlerFunc"

\* runListeners with the visitor of a Handle* wrapper: the type assertion
\* panics on a callback of another type, before the callback is called.
TypedVisit ==
    /\ stack # << >>
    /\ Top.kind = "TE" /\ Top.pc = "run"
    /\ Top.idx < Top.n
    /\ IF LoopArray(Top)[Top.idx + 1].callback.type = AssertedType(Top.item.event)
       THEN Visit
       ELSE /\ stack' = << >>
            /\ failed' = TRUE
            /\ doomed' = doomed \cup Pending
            /\ log' = << >>
            /\ mutated' = FALSE
            /\ gone' = {}
            /\ started' = 0
            /\ again' = FALSE
            /\ UNCHANGED << listeners, listenerID, lock, triggerQueue, handles,
                            nreq, popped >>

\* The dispatcher used through its typed wrappers only.
NextTyped ==
    \/ \E f \in TypedFuncs, c \in TypedChannels : OnTextMessage(f, c)
    \/ \E f \in TypedFuncs, c \in TypedChannels : OnTwitchMessage(f, c)
    \/ \E f \in TypedFuncs, c \in TypedChannels : OnJoin(f, c)
    \/ \E f \in TypedFuncs, c \in TypedChannels : OnPart(f, c)
    \/ \E h \in 1..MaxListeners : Remove(h)
    \/ \E c \in TypedChannels : HandleTextMessage(c)
    \/ \E c \in TypedChannels : HandleTwitchMessage(c)
    \/ \E c \in TypedChannels : HandleJoin(c)
    \/ \E c \in TypedChannels : HandlePart(c)
    \/ CheckLock
    \/ PopItem
    \/ TypedVisit
    \/ Return
    \/ Panic
    \/ RunDone
    \/ LoopEnd

SpecTyped == Init /\ [][NextTyped]_vars

\* ------------------------------------------------------------ any names
\* AddListener and TriggerEvent take any string as event name, and a channel
\* of any name: names that contain the separator '#' are among them.
KeyAddInputs ==
    { <<"JOIN", NilChannel>>, <<"JOIN", Channel("foo")>>, <<"JOIN#foo", NilChannel>> }
KeyTriggerInputs ==
    { <<"JOIN", Channel("foo")>>, <<"JOIN#foo", NilChannel>> }

\* The callback a client registers for an (event name, channel) pair: the
\* clients of this specification use one function per pair, so that an
\* invoked callback tells the pair its listener was registered with.
Registration(event, c) == [event |-> event, channel |-> c]

\* The dispatcher used with names that may contain '#'.
NextKeys ==
    \/ \E in \in KeyAddInputs :
          AddListener(in[1], in[2], Registration(in[1], in[2]))
    \/ \E h \in 1..MaxListeners : Remove(h)
    \/ \E in \in KeyTriggerInputs : TriggerEvent(in[1], in[2])
    \/ CheckLock
    \/ PopItem
    \/ Visit
    \/ Return
    \/ Panic
    \/ RunDone
    \/ LoopEnd

SpecKeys == Init /\ [][NextKeys]_vars

\* ------------------------------------------------------------------ claims
\* Helpers of the claims' formulas.
QueueVisitors == [i \in 1..Len(triggerQueue) |-> triggerQueue[i].visitor]
CallOrder == [i \in 1..nreq |-> i]
TEFrames == { i \in 1..Len(stack) : stack[i].kind = "TE" }
CBFrames == { i \in 1..Len(stack) : stack[i].kind = "CB" }
Draining == { i \in TEFrames : stack[i].pc \in {"loop", "run"} }
Running == { i \in TEFrames : stack[i].pc = "run" }
LastPopped == popped[Len(popped)]

\* C1: requests are delivered in the order of the TriggerEvent calls (the
\* requests delivered so far followed by the queue are the calls in call
\* order), and the delivery of a request is never interleaved with another:
\* at most one delivery is in progress, it is that of the request popped
\* last, and every invocation made since that pop is made for it.
C1_BreadthFirstFifo ==
    /\ popped \o QueueVisitors = CallOrder
    /\ Cardinality(Running) <= 1
    /\ \A i \in Running : stack[i].item.visitor = LastPopped
    /\ \A j \in 1..Len(log) : log[j].visitor = LastPopped

\* C1 witness: the first of two listeners of request 1 has raised requests 2
\* and 3, which wait in the queue while the second listener is still to run.
C1_Witness ==
    /\ Len(stack) = 2 /\ stack[2].kind = "CB"
    /\ ~failed
    /\ popped = << 1 >>
    /\ stack[1].n >= 2 /\ stack[1].idx = 0
    /\ QueueVisitors = << 2, 3 >>

\* C2: at most one TriggerEvent frame is in the drain loop, at most one
\* listener is running, and at most two TriggerEvent frames are active.
C2_BoundedFrames ==
    /\ Cardinality(Draining) <= 1
    /\ Cardinality(CBFrames) <= 1
    /\ Cardinality(TEFrames) <= 2

\* C2 witness: during the delivery of the third request of a run, a listener
\* has called TriggerEvent: two TriggerEvent frames are active.
C2_Witness ==
    /\ Cardinality(TEFrames) = 2
    /\ Len(stack) = 3 /\ stack[3].pc = "check"
    /\ Len(popped) = 2 /\ nreq = 3

\* A TriggerEvent call has enqueued its request and finds the lock taken.
BusyCall ==
    IF stack = << >> THEN FALSE
    ELSE Top.kind = "TE" /\ Top.pc = "check" /\ lock

\* C3: a TriggerEvent call made while the lock is taken appends its request,
\* and only it, to the tail of the queue; its next step is its return, and
\* neither step invokes a listener or changes the lock, the registry or the
\* id counter.
C3_BusyCallOnlyEnqueues ==
    [][ /\ (nreq' # nreq /\ lock) =>
            /\ Len(triggerQueue') = Len(triggerQueue) + 1
            /\ SubSeq(triggerQueue', 1, Len(triggerQueue)) = triggerQueue
            /\ triggerQueue'[Len(triggerQueue')].visitor = nreq'
            /\ UNCHANGED << lock, listeners, listenerID, log, popped >>
        /\ BusyCall =>
            /\ stack' = Pop(stack)
            /\ UNCHANGED << triggerQueue, lock, listeners, listenerID, log, popped >>
      ]_vars

\* C3 witness: a listener's TriggerEvent call has returned; its request waits
\* in the queue and the listener runs on.
C3_Witness ==
    /\ ~failed /\ lock
    /\ Len(stack) = 2 /\ stack[2].kind = "CB"
    /\ Len(triggerQueue) >= 1
    /\ triggerQueue[Len(triggerQueue)].visitor = nreq


Range(q) == { q[i] : i \in 1..Len(q) }

\* C4: a top-level call that no panic ends returns, and when control is back
\* in the main loop without any panic the queue is empty, the lock is free
\* and every request made so far has been delivered, in call order.
C4_TopLevelCallDrainsAll ==
    /\ [](stack = << >> /\ ~failed =>
            triggerQueue = << >> /\ ~lock /\ popped = CallOrder)
    /\ (stack # << >>) ~> (stack = << >>)

\* C4 witness: the main loop has control again after every request of the
\* run, nested ones included, has been delivered to a listener.
C4_Witness ==
    /\ stack = << >> /\ ~failed
    /\ nreq = MaxTriggers /\ Len(popped) = MaxTriggers
    /\ \E k \in DOMAIN listeners : listeners[k].len >= 1

\* C5: every request that is enqueued is delivered in the end, unless it was
\* pending in a drain that a panic ended.
C5_EveryRequestDelivered ==
    \A r \in 1..MaxTriggers :
        (r <= nreq) ~> (r \in Range(popped) \/ r \in doomed)

\* The ids and the callbacks of the listeners registered under a key, in
\* list order.
ListIds(key) ==
    IF key \in DOMAIN listeners
    THEN [i \in 1..listeners[key].len |-> listeners[key].arr[i].id]
    ELSE << >>

\* The ids of the invocations of the delivery in progress, in order.
LogIds == [j \in 1..Len(log) |-> log[j].id]

\* The keys a request matches and the listeners it is to reach.
ScopedKey(item) == FullEventName(item.event, item.channel)
MatchingKeys(item) ==
    IF item.channel.isNil THEN {item.event} ELSE {item.event, ScopedKey(item)}
Expected(item) ==
    ListIds(item.event)
        \o (IF item.channel.isNil THEN << >> ELSE ListIds(ScopedKey(item)))

\* The delivery of frame f's request is complete.
Delivered(f) == f.pc = "run" /\ f.idx = f.n /\ LastRun(f)

\* C6: the listeners invoked for a request are registered under the plain
\* event name or, when the request has a channel, under name#channel; those
\* of the plain name are invoked before the scoped ones; and a delivery during
\* which the registry does not change invokes the listeners of the plain key
\* followed by those of the scoped key, and no others.
C6_Scoping ==
    \A i \in Running :
        LET f == stack[i] IN
        /\ \A j \in 1..Len(log) : log[j].event \in MatchingKeys(f.item)
        /\ \A j, k \in 1..Len(log) :
              (j < k /\ log[k].event = f.item.event) => log[j].event = f.item.event
        /\ (Delivered(f) /\ ~mutated) => LogIds = Expected(f.item)

\* C6 witness: a request for JOIN on channel foo has been delivered to the
\* global and to the scoped listener while a listener of TEXT is registered.
C6_Witness ==
    /\ Len(stack) = 1 /\ Delivered(stack[1]) /\ ~mutated
    /\ stack[1].item.event = "JOIN" /\ stack[1].item.channel = Channel("foo")
    /\ Len(log) = 2
    /\ log[1].event = "JOIN" /\ log[2].event = "JOIN#foo"
    /\ "TEXT" \in DOMAIN listeners /\ listeners["TEXT"].len = 1

\* The position of a listener id in the order of the AddListener calls.
RegIndex(id) == CHOOSE h \in 1..Len(handles) : handles[h].id = id

\* The ids invoked by the runListeners call of frame f, in order.
RunIds(f) ==
    LET run == SelectSeq(log, LAMBDA e : e.event = f.key)
    IN  [j \in 1..Len(run) |-> run[j].id]

\* C7: when the registry does not change during a delivery, a runListeners
\* call has invoked, at its end, every listener of its key once, in the order
\* of their registration.
C7_OncePerListenerInOrder ==
    \A i \in Running :
        LET f == stack[i]
            ids == RunIds(f)
        IN  (f.idx = f.n /\ ~mutated) =>
              /\ Range(ids) = Range(ListIds(f.key))
              /\ Len(ids) = Cardinality(Range(ids))
              /\ \A j, k \in 1..Len(ids) :
                    j < k => RegIndex(ids[j]) < RegIndex(ids[k])

\* C7 witness: a runListeners call has gone through a key with two listeners.
C7_Witness ==
    /\ Len(stack) = 1 /\ stack[1].pc = "run" /\ ~mutated
    /\ stack[1].idx = 2 /\ stack[1].n = 2
    /\ Len(RunIds(stack[1])) = 2

\* C8: a delivery invokes no listener whose Remove had returned when the
\* request was popped.
C8_RemovedNeverInvoked ==
    \A j \in 1..Len(log) : log[j].id \notin gone

\* C8 witness: a request is delivered to a listener of a key from which
\* another listener had been removed before.
C8_Witness ==
    /\ Len(log) >= 1
    /\ \E h \in 1..Len(handles) :
          /\ handles[h].id \in gone
          /\ handles[h].event = log[1].event

\* C9: a Remove on a handle that has no dispatcher any more, or whose key has
\* no list, changes neither the registry nor the queue, the lock or the id
\* counter, and does not fail.
C9_RemoveIdempotent ==
    [][ again' =>
          UNCHANGED << listeners, triggerQueue, lock, listenerID, failed, stack >>
      ]_vars

\* C9 witness: Remove has been called again on a removed handle while a
\* listener with the same key and callback, added later, is registered.
C9_Witness ==
    /\ again
    /\ \E h \in 1..Len(handles) :
          /\ ~handles[h].dispatcher
          /\ \E g \in (h + 1)..Len(handles) :
                /\ handles[g].dispatcher
                /\ handles[g].event = handles[h].event
                /\ handles[g].callback = handles[h].callback

\* C10: the ids of the handles are non-negative and strictly increasing in
\* the order of the AddListener calls, removed listeners included.
C10_IdsIncrease ==
    /\ \A h \in 1..Len(handles) : handles[h].id >= 0 /\ handles[h].id < listenerID
    /\ \A g, h \in 1..Len(handles) : g < h => handles[g].id < handles[h].id

\* C10 witness: a listener was added and removed, and the listener added
\* under the same key afterwards, in the slot the removal freed, has a new id.
C10_Witness ==
    /\ Len(handles) = MaxListeners
    /\ ~handles[1].dispatcher
    /\ LET list == listeners[handles[1].event] IN
          /\ list.len = 1 /\ Len(list.arr) = 1
          /\ list.arr[1].id > handles[1].id

\* C11: the step in which a listener fails unwinds every frame, the top-level
\* TriggerEvent call included, and leaves the lock set; once a listener has
\* failed the lock stays set, no TriggerEvent call enters the drain loop,
\* every step keeps the requests of the queue in place, and no request is
\* taken off the queue or delivered to a listener any more.
C11_FailureStopsDelivery ==
    [][ /\ (~failed /\ failed') => (stack' = << >> /\ lock /\ lock')
        /\ failed =>
              /\ lock /\ lock'
              /\ Draining = {}
              /\ popped' = popped
              /\ log = << >> /\ log' = << >>
              /\ Len(triggerQueue') >= Len(triggerQueue)
              /\ \A i \in 1..Len(triggerQueue) : triggerQueue'[i] = triggerQueue[i]
      ]_vars

\* C11 witness: after a failure the queue holds a request that was pending
\* when the listener failed and a request raised afterwards, whose
\* TriggerEvent call has returned.
C11_Witness ==
    /\ failed /\ lock /\ stack = << >>
    /\ \E i, j \in 1..Len(triggerQueue) :
          /\ triggerQueue[i].visitor \in doomed
          /\ triggerQueue[j].visitor \notin doomed

\* No listener is registered under the plain key of the item nor under its
\* scoped key.
NoMatch(item) == Expected(item) = << >>

\* C12: a top-level TriggerEvent call (made with the lock free) finds its
\* own request alone in the queue and takes it off; while a request without
\* a listener under its plain and scoped keys is delivered, no listener is
\* invoked, nothing fails, and the registry, the id counter and the empty
\* queue stay as they are; and with the queue empty the call returns with
\* the lock released, the queue empty and the registry and counter unchanged.
C12_NoListenerNoEffect ==
    [][ (Len(stack) = 1 /\ stack[1].kind = "TE") =>
          LET f == stack[1] IN
          /\ (f.pc = "check" /\ ~lock) =>
                /\ Len(triggerQueue) = 1 /\ lock'
                /\ UNCHANGED << listeners, listenerID, triggerQueue, failed, log >>
          /\ (f.pc = "loop" /\ f.item = NoItem) =>
                /\ triggerQueue' = << >>
                /\ UNCHANGED << listeners, listenerID, failed >>
          /\ (f.pc = "run" /\ NoMatch(f.item) /\ ~mutated) =>
                /\ log = << >> /\ log' = << >>
                /\ Len(stack') = 1 /\ stack'[1].kind = "TE"
                /\ UNCHANGED << listeners, listenerID, triggerQueue, failed, lock >>
          /\ (f.pc = "loop" /\ f.item # NoItem /\ triggerQueue = << >>) =>
                /\ stack' = << >> /\ ~lock' /\ triggerQueue' = << >>
                /\ UNCHANGED << listeners, listenerID, failed >>
      ]_vars

\* C12 witness: with listeners registered for TEXT and for JOIN#foo, and none
\* ever removed, the top-level call for JOIN on channel bar has run both
\* lookups and is about to return: nothing was invoked and the queue is empty.
C12_Witness ==
    /\ Len(stack) = 1 /\ stack[1].pc = "loop"
    /\ stack[1].item.visitor = 1 /\ nreq = 1
    /\ stack[1].item.channel = Channel("bar")
    /\ stack[1].item.stamp = listenerID
    /\ { handles[h].event : h \in 1..Len(handles) } = {"TEXT", "JOIN#foo"}
    /\ Removed = {}
    /\ NoMatch(stack[1].item)
    /\ triggerQueue = << >> /\ ~failed /\ lock

\* The On* wrapper that matches the Handle* wrapper triggering the event.
Registrar(event) ==
    CASE event = "TEXT" -> "OnTextMessage"
      [] event = "TWITCH" -> "OnTwitchMessage"
      [] event = "JOIN" -> "OnJoin"
      [] event = "PART" -> "OnPart"

\* C13: with listeners registered through the typed wrappers only, every
\* callback invoked for the request of a Handle* wrapper was registered by
\* the matching On* wrapper and has the handler type the wrapper's visitor
\* asserts; and the listener the loop is about to hand to the visitor has
\* that registrar and type too, so the type assertion never fails.
C13_TypedDelivery ==
    \A i \in Running :
        LET f == stack[i] IN
        /\ \A j \in 1..Len(log) :
              /\ log[j].callback.via = Registrar(f.item.event)
              /\ log[j].callback.type = AssertedType(f.item.event)
        /\ (i = Len(stack) /\ f.idx < f.n) =>
              LET next == LoopArray(f)[f.idx + 1].callback IN
              /\ next.via = Registrar(f.item.event)
              /\ next.type = AssertedType(f.item.event)

\* C13 witness: listeners of OnJoin and of OnPart, of the same handler type,
\* are registered for the same channel; the delivery of a HandlePart request
\* is complete and has invoked a callback.
C13_Witness ==
    /\ \E g, h \in 1..Len(handles) :
          /\ handles[g].dispatcher /\ handles[g].callback.via = "OnJoin"
          /\ handles[h].dispatcher /\ handles[h].callback.via = "OnPart"
    /\ \E i \in Running :
          /\ stack[i].item.event = "PART"
          /\ Delivered(stack[i])
    /\ log # << >>

\* C14: a step in which a handle loses its dispatcher (the first Remove on a
\* registered handle) turns the list of the handle's key into the same list
\* without the entry of the handle's id, one entry shorter and in the same
\* order, and leaves the set of keys, the lists of the other keys, the
\* queue, the lock and the id counter unchanged.
C14_RemoveDeletesOne ==
    [][ \A h \in 1..Len(handles) :
          (handles[h].dispatcher /\ ~handles'[h].dispatcher) =>
            LET self == handles[h] IN
            /\ self.event \in DOMAIN listeners
            /\ DOMAIN listeners' = DOMAIN listeners
            /\ Elems(listeners'[self.event]) =
                   SelectSeq(Elems(listeners[self.event]),
                             LAMBDA e : e.id # self.id)
            /\ listeners'[self.event].len = listeners[self.event].len - 1
            /\ \A k \in DOMAIN listeners \ {self.event} :
                   listeners'[k] = listeners[k]
            /\ UNCHANGED << triggerQueue, lock, listenerID >>
      ]_vars

\* C14 witness: three listeners were registered under JOIN and a listener
\* running in a delivery has removed the first: the list holds the second
\* and the third, in that order.
C14_Witness ==
    /\ Len(handles) = 3
    /\ \A h \in 1..3 : handles[h].event = "JOIN" /\ handles[h].id = h - 1
    /\ ~handles[1].dispatcher /\ handles[2].dispatcher /\ handles[3].dispatcher
    /\ ListIds("JOIN") = << 1, 2 >>
    /\ lock /\ CBFrames # {}

\* C15: every AddListener call returns a handle that carries the value the
\* id counter had before the call and an id no handle returned earlier
\* carries, increments the counter by exactly 1, and appends that listener
\* at the end of the list of its key (a new list when the key is new),
\* leaving the other lists as they are: the duplicate check never matches.
C15_AddAlwaysAppends ==
    [][ Len(handles') > Len(handles) =>
          LET new == handles'[Len(handles')]
              old == IF new.event \in DOMAIN listeners
                     THEN Elems(listeners[new.event]) ELSE << >>
          IN  /\ new.id = listenerID
              /\ new.dispatcher
              /\ listenerID' = listenerID + 1
              /\ \A h \in 1..Len(handles) : handles[h].id # new.id
              /\ DOMAIN listeners' = DOMAIN listeners \cup {new.event}
              /\ Elems(listeners'[new.event]) = Append(old, new)
              /\ \A k \in DOMAIN listeners \ {new.event} :
                     listeners'[k] = listeners[k]
      ]_vars

\* C15 witness: the same callback has been registered twice under the same
\* key; both registrations are in the list of the key, with different ids,
\* the second after the first.
C15_Witness ==
    \E g, h \in 1..Len(handles) :
        /\ g < h
        /\ handles[g].event = handles[h].event
        /\ handles[g].callback = handles[h].callback
        /\ handles[g].dispatcher /\ handles[h].dispatcher
        /\ ListIds(handles[g].event) = << handles[g].id, handles[h].id >>
        /\ handles[g].id < handles[h].id

\* The number of invocations of listener id by the runListeners call of f.
Invocations(f, id) ==
    Cardinality({ j \in 1..Len(RunIds(f)) : RunIds(f)[j] = id })

\* C16: at the end of a runListeners call of a delivery during which Remove
\* has been called, and no listener has been added, every listener that is
\* still in the list of the call's key has been invoked exactly once by that
\* call: none was skipped, none was invoked twice.
C16_RemoveKeepsOthersOnce ==
    \A i \in Running :
        LET f == stack[i] IN
        (/\ i = Len(stack) /\ f.idx = f.n
         /\ Removed \ gone # {}
         /\ listenerID = started) =>
            \A k \in 1..Len(ListIds(f.key)) :
                Invocations(f, ListIds(f.key)[k]) = 1

\* C17: no callback is invoked after the Remove of its listener has
\* returned: every invocation is that of a listener whose handle has not
\* been removed when the visitor is called.
C17_NoInvocationAfterRemove ==
    [][ Len(log') > Len(log) => log'[Len(log')].id \notin Removed ]_vars

\* The entries of the registry: the (key, index) pairs of the lists' elements.
Entries ==
    { e \in (DOMAIN listeners) \X (1..MaxListeners) : e[2] <= listeners[e[1]].len }
EntryAt(e) == listeners[e[1]].arr[e[2]]

\* C18: in every reachable state, every entry of the list of key K has event
\* key K, every stored id is at least 0 and smaller than the id counter, and
\* no two entries of the registry have the same id.
C18_RegistryInvariant ==
    /\ \A e \in Entries :
          /\ EntryAt(e).event = e[1]
          /\ EntryAt(e).id >= 0 /\ EntryAt(e).id < listenerID
    /\ \A d, e \in Entries : d # e => EntryAt(d).id # EntryAt(e).id

\* C18 witness: inside a listener, the registry holds entries under two keys
\* and a list from which an entry has been removed, the stale copy of its
\* old last element still sitting behind its end.
C18_Witness ==
    /\ CBFrames # {}
    /\ \E j, k \in DOMAIN listeners :
          /\ j # k /\ listeners[j].len > 0 /\ listeners[k].len > 0
          /\ listeners[k].len < Len(listeners[k].arr)
          /\ listeners[k].arr[listeners[k].len + 1] # ZeroListener
    /\ Removed # {}

\* C19: when the delivery of a request is complete, every listener that was
\* added after the request's TriggerEvent call and before its delivery began
\* (while it waited in the queue), and that is registered under a key the
\* request matches, has been invoked for it; and no listener that was
\* registered when TriggerEvent was called and removed before the delivery
\* began has been invoked for it.
C19_RegisteredAtDelivery ==
    \A i \in Running :
        LET f == stack[i] IN
        (i = Len(stack) /\ Delivered(f)) =>
            /\ \A id \in Range(Expected(f.item)) :
                  (id >= f.item.stamp /\ id < started) => id \in Range(LogIds)
            /\ \A id \in gone :
                  id < f.item.stamp => id \notin Range(LogIds)

\* C20: two listeners registered with different (event name, channel) pairs
\* are never stored under the same key, and every callback invoked for a
\* request of event E and channel C (or no channel) belongs to a listener
\* registered with event name E and with no channel or with channel C.
C20_KeyIsolation ==
    /\ \A g, h \in 1..Len(handles) :
          handles[g].callback # handles[h].callback =>
              handles[g].event # handles[h].event
    /\ \A i \in Running : \A j \in 1..Len(log) :
          /\ log[j].callback.event = stack[i].item.event
          /\ \/ log[j].callback.channel = NilChannel
             \/ log[j].callback.channel = stack[i].item.channel
====
